---- MODULE Spec2Model ----
(***************************************************************************)
(* Sentinel: situation analyzer (src/ai/analyzer.ts), response library     *)
(* (getResponseForIntent and the five templates) and composition engine    *)
(* (SentinelComposition and the four layouts).                             *)
(*                                                                         *)
(* Texts are TLA+ strings; a character is a string of length 1.            *)
(* Confidence values are integers in hundredths (0.45 is 45, 0.08 is 8):   *)
(* every constant of the code is a multiple of 0.01 and the code only adds *)
(* them and takes minima.                                                  *)
(***************************************************************************)
EXTENDS Integers, Sequences, FiniteSets, TLC

(***************************************************************************)
(* Bounds of the model                                                     *)
(***************************************************************************)
\* longest phrase, in words of Vocabulary, drawn as input text
MaxWords == 2
\* longest components list of a document handed to the composition
MaxComponents == 2
MaxCalls == 3

(***************************************************************************)
(* Regular expressions: the subset of ECMAScript the pattern tables use    *)
(***************************************************************************)
UpperLetters == "ABCDEFGHIJKLMNOPQRSTUVWXYZ"
LowerLetters == "abcdefghijklmnopqrstuvwxyz"
Digits == "0123456789"

CharsOf(s) == {SubSeq(s, k, k) : k \in 1..Len(s)}

UpperSet == CharsOf(UpperLetters)
\* \w is [A-Za-z0-9_]
WordChars == CharsOf(UpperLetters) \cup CharsOf(LowerLetters) \cup CharsOf(Digits) \cup {"_"}
\* \s : the white space the inputs can hold
SpaceChars == {" ", "\t", "\n", "\r", "\f"}

CharAt(s, i) == SubSeq(s, i, i)

\* the i flag: characters are compared after case canonicalisation
CaseTable ==
    [c \in UpperSet |->
        CharAt(LowerLetters, CHOOSE j \in 1..Len(UpperLetters) : CharAt(UpperLetters, j) = c)]

Canonicalize(c) == IF c \in UpperSet THEN CaseTable[c] ELSE c

\* constructors of pattern nodes
Lit(s) == [t |-> "lit", s |-> s]
Space == [t |-> "space"]
WordB == [t |-> "wordb"]
Class(cs, withSpace) == [t |-> "class", cs |-> cs, ws |-> withSpace]
Cat(xs) == [t |-> "cat", xs |-> xs]
Alt(xs) == [t |-> "alt", xs |-> xs]
Opt(x) == [t |-> "opt", x |-> x]
Plus(x) == [t |-> "plus", x |-> x]
Star(x) == [t |-> "star", x |-> x]

IsWordAt(s, i) == i >= 1 /\ i <= Len(s) /\ CharAt(s, i) \in WordChars

LitMatches(lit, s, i) ==
    /\ i + Len(lit) - 1 <= Len(s)
    /\ \A k \in 1..Len(lit) :
          Canonicalize(CharAt(s, i + k - 1)) = Canonicalize(CharAt(lit, k))

RECURSIVE Ends(_, _, _)
RECURSIVE CatEnds(_, _, _, _)
RECURSIVE PlusEnds(_, _, _)

\* the positions at which a match of re that starts at position i of s can end
\* (position i is just before the i-th character)
Ends(re, s, i) ==
    CASE re.t = "lit" -> IF LitMatches(re.s, s, i) THEN {i + Len(re.s)} ELSE {}
      [] re.t = "space" ->
            IF i <= Len(s) /\ CharAt(s, i) \in SpaceChars THEN {i + 1} ELSE {}
      [] re.t = "class" ->
            IF i <= Len(s) /\ (CharAt(s, i) \in re.cs \/ (re.ws /\ CharAt(s, i) \in SpaceChars))
            THEN {i + 1} ELSE {}
      [] re.t = "wordb" -> IF IsWordAt(s, i - 1) # IsWordAt(s, i) THEN {i} ELSE {}
      [] re.t = "cat" -> CatEnds(re.xs, 1, s, {i})
      [] re.t = "alt" -> UNION {Ends(re.xs[k], s, i) : k \in DOMAIN re.xs}
      [] re.t = "opt" -> {i} \cup Ends(re.x, s, i)
      [] re.t = "plus" -> PlusEnds(re.x, s, i)
      [] re.t = "star" -> {i} \cup PlusEnds(re.x, s, i)

CatEnds(xs, k, s, starts) ==
    IF k > Len(xs) \/ starts = {} THEN starts
    ELSE CatEnds(xs, k + 1, s, UNION {Ends(xs[k], s, i) : i \in starts})

PlusEnds(x, s, i) ==
    LET once == Ends(x, s, i)
    IN  once \cup UNION {PlusEnds(x, s, j) : j \in {e \in once : e > i}}

\* RegExp.prototype.test for a pattern without the g or y flag: is there a
\* match starting anywhere in s (no lastIndex state is kept between calls)
Test(re, s) == \E i \in 1..(Len(s) + 1) : Ends(re, s, i) # {}

(***************************************************************************)
(* Pattern tables                                                          *)
(***************************************************************************)
\* declaration order of the keys of INTENT_PATTERNS and of scores
IntentOrder == <<"incident", "overview", "investigation", "escalation", "exploration">>
Intents == {IntentOrder[k] : k \in DOMAIN IntentOrder}

\* the order classifyUrgency walks the levels in
UrgencyOrder == <<"critical", "high", "medium", "low">>
Urgencies == {UrgencyOrder[k] : k \in DOMAIN UrgencyOrder}

INTENT_PATTERNS ==
    [incident |-> <<
        Cat(<<Lit("fail"), Opt(Alt(<<Lit("ure"), Lit("ing"), Lit("ed")>>))>>),
        Cat(<<Lit("down"), WordB>>),
        Lit("error"),
        Lit("broken"),
        Lit("outage"),
        Lit("crash"),
        Cat(<<Lit("login"), Plus(Space), Lit("fail")>>),
        Cat(<<Lit("not"), Plus(Space), Lit("work")>>),
        Cat(<<Lit("report"), Opt(Alt(<<Lit("ing"), Lit("ed")>>))>>),
        Lit("issue"),
        Lit("bug"),
        Lit("500"),
        Lit("timeout") >>,
     overview |-> <<
        Lit("overview"),
        Lit("summary"),
        Lit("today"),
        Lit("status"),
        Cat(<<Lit("how"), Plus(Space), Alt(<<Lit("are"), Lit("is")>>), Plus(Space), Lit("things")>>),
        Cat(<<Lit("high"), Class({"-"}, TRUE), Lit("level")>>),
        Lit("dashboard"),
        Cat(<<Lit("what"), Opt(Lit("'")), Lit("s"), Plus(Space), Lit("happening")>>),
        Lit("general"),
        Cat(<<Lit("brief"), Opt(Lit("ing"))>>) >>,
     investigation |-> <<
        Lit("investigat"),
        Cat(<<Lit("something"), Plus(Space),
              Alt(<<Cat(<<Lit("feel"), Opt(Lit("s"))>>), Cat(<<Lit("seem"), Opt(Lit("s"))>>)>>)>>),
        Cat(<<WordB, Lit("off"), WordB>>),
        Lit("anomal"),
        Lit("suspicious"),
        Cat(<<Lit("dig"), Plus(Space), Alt(<<Lit("in"), Lit("into")>>)>>),
        Cat(<<Lit("look"), Plus(Space), Lit("into")>>),
        Cat(<<Lit("root"), Plus(Space), Lit("cause")>>),
        Cat(<<WordB, Lit("why"), WordB>>),
        Lit("weird"),
        Lit("strange"),
        Lit("unusual") >>,
     escalation |-> <<
        Lit("escalat"),
        Lit("urgent"),
        Lit("critical"),
        Cat(<<Lit("what"), Plus(Space), Lit("should"), Plus(Space), Lit("I"), Plus(Space), Lit("do")>>),
        Lit("action"),
        Cat(<<WordB, Lit("help"), WordB>>),
        Cat(<<WordB, Lit("now"), WordB>>),
        Lit("immediate"),
        Lit("emergency"),
        Lit("worst"),
        Cat(<<Lit("getting"), Plus(Space), Lit("worse")>>),
        Lit("spreading") >>,
     exploration |-> <<
        Cat(<<Lit("show"), Plus(Space), Lit("me")>>),
        Lit("explore"),
        Cat(<<Lit("tell"), Plus(Space), Lit("me"), Plus(Space), Lit("about")>>),
        Lit("details"),
        Cat(<<Lit("more"), Plus(Space), Lit("info")>>),
        Lit("drill"),
        Cat(<<WordB, Lit("deep"), WordB>>),
        Cat(<<Lit("break"), Star(Space), Lit("down")>>) >>]

URGENCY_SIGNALS ==
    [critical |-> <<
        Lit("escalat"), Lit("emergency"), Lit("critical"), Cat(<<WordB, Lit("now"), WordB>>),
        Lit("immediate"), Lit("worst"), Lit("spreading") >>,
     high |-> <<
        Lit("fail"), Lit("broken"), Cat(<<Lit("down"), WordB>>), Lit("outage"),
        Lit("crash"), Lit("urgent"), Lit("reporting") >>,
     medium |-> <<
        Lit("investigat"), Lit("something"), Cat(<<WordB, Lit("off"), WordB>>),
        Lit("anomal"), Lit("suspicious"), Lit("weird") >>,
     low |-> <<
        Lit("overview"), Lit("summary"), Lit("today"),
        Lit("general"), Lit("status"), Lit("brief") >>]

(***************************************************************************)
(* Array.prototype.sort with a numeric comparator                          *)
(***************************************************************************)
RECURSIVE InsertByKey(_, _)
\* x goes after every element whose key is not greater: the sort is stable
InsertByKey(x, sorted) ==
    IF sorted = <<>> THEN <<x>>
    ELSE IF Head(sorted).key <= x.key
         THEN <<Head(sorted)>> \o InsertByKey(x, Tail(sorted))
         ELSE <<x>> \o sorted

RECURSIVE SortFrom(_, _, _)
SortFrom(items, k, acc) ==
    IF k > Len(items) THEN acc
    ELSE SortFrom(items, k + 1, InsertByKey(items[k], acc))

\* items: a sequence of [key, val]; the result is in ascending key order and
\* elements with equal keys keep their order (ECMAScript 2019 sort is stable)
StableSort(items) == SortFrom(items, 1, <<>>)

(***************************************************************************)
(* Classification functions                                                *)
(***************************************************************************)
MatchCount(patterns, input) ==
    Cardinality({k \in DOMAIN patterns : Test(patterns[k], input)})

\* the scores record after the two loops of classifyIntent
IntentScores(input) == [i \in Intents |-> MatchCount(INTENT_PATTERNS[i], input)]

\* variant: among equal scores the intent declared last comes first
classifyIntentLastMax(input) ==
    LET scores == IntentScores(input)
        n == Len(IntentOrder)
        entries == [k \in DOMAIN IntentOrder |->
                       [key |-> 0 - scores[IntentOrder[n + 1 - k]], val |-> IntentOrder[n + 1 - k]]]
        sorted == StableSort(entries)
    IN  IF 0 - sorted[1].key > 0 THEN sorted[1].val ELSE "exploration"

\* variant: sorted[0][0] is returned without the test of its score
classifyIntentNoDefault(input) ==
    LET scores == IntentScores(input)
        entries == [k \in DOMAIN IntentOrder |->
                       [key |-> 0 - scores[IntentOrder[k]], val |-> IntentOrder[k]]]
        sorted == StableSort(entries)
    IN  sorted[1].val

classifyIntent(input) ==
    LET scores == IntentScores(input)
        \* Object.entries(scores) in declaration order; comparator b - a
        entries == [k \in DOMAIN IntentOrder |->
                       [key |-> 0 - scores[IntentOrder[k]], val |-> IntentOrder[k]]]
        sorted == StableSort(entries)
    IN  IF 0 - sorted[1].key > 0 THEN sorted[1].val ELSE "exploration"

RECURSIVE UrgencyFrom(_, _)
UrgencyFrom(input, k) ==
    IF k > Len(UrgencyOrder) THEN "low"
    ELSE IF \E p \in DOMAIN URGENCY_SIGNALS[UrgencyOrder[k]] :
                Test(URGENCY_SIGNALS[UrgencyOrder[k]][p], input)
         THEN UrgencyOrder[k]
         ELSE UrgencyFrom(input, k + 1)

\* variant: urgency scored like the intent, the level with most matches wins
classifyUrgencyByScore(input) ==
    LET count(l) == MatchCount(URGENCY_SIGNALS[l], input)
        best == CHOOSE k \in DOMAIN UrgencyOrder :
                    \A j \in DOMAIN UrgencyOrder :
                        \/ count(UrgencyOrder[j]) < count(UrgencyOrder[k])
                        \/ count(UrgencyOrder[j]) = count(UrgencyOrder[k]) /\ k <= j
    IN  IF count(UrgencyOrder[best]) > 0 THEN UrgencyOrder[best] ELSE "low"

classifyUrgency(input) == UrgencyFrom(input, 1)

Min(a, b) == IF a <= b THEN a ELSE b

\* variant: neither Math.min
calculateConfidenceNoCaps(intent, input) ==
    LET matchCount == MatchCount(INTENT_PATTERNS[intent], input)
        baseConfidence == IF intent = "investigation" THEN 45
                          ELSE IF intent = "exploration" THEN 60 ELSE 70
    IN  baseConfidence + matchCount * 8

\* variant: the matches of the urgency level count as signal strength too
calculateConfidenceWithUrgency(intent, input) ==
    LET matchCount == MatchCount(INTENT_PATTERNS[intent], input)
                        + MatchCount(URGENCY_SIGNALS[classifyUrgency(input)], input)
        baseConfidence == IF intent = "investigation" THEN 45
                          ELSE IF intent = "exploration" THEN 60 ELSE 70
        bonus == Min(matchCount * 8, 25)
    IN  Min(baseConfidence + bonus, 95)

\* variant: the base confidence alone
calculateConfidenceNoBonus(intent, input) ==
    IF intent = "investigation" THEN 45
    ELSE IF intent = "exploration" THEN 60 ELSE 70

\* variant: a bonus of 0.04 for each matching pattern
calculateConfidenceHalfBonus(intent, input) ==
    LET matchCount == MatchCount(INTENT_PATTERNS[intent], input)
        baseConfidence == IF intent = "investigation" THEN 45
                          ELSE IF intent = "exploration" THEN 60 ELSE 70
        bonus == Min(matchCount * 4, 25)
    IN  Min(baseConfidence + bonus, 95)

\* in hundredths
calculateConfidence(intent, input) ==
    LET matchCount == MatchCount(INTENT_PATTERNS[intent], input)
        baseConfidence == IF intent = "investigation" THEN 45
                          ELSE IF intent = "exploration" THEN 60 ELSE 70
        bonus == Min(matchCount * 8, 25)
    IN  Min(baseConfidence + bonus, 95)

RECURSIVE MapChars(_, _, _)
\* toLowerCase and replace(/[^\w\s]/g, ''): the characters of s that are in
\* keep, in lower case
MapChars(s, k, keep) ==
    IF k > Len(s) THEN ""
    ELSE (IF CharAt(s, k) \in keep THEN Canonicalize(CharAt(s, k)) ELSE "")
         \o MapChars(s, k + 1, keep)

RECURSIVE SplitSpaces(_, _, _)
\* String.prototype.split(/\s+/): the pieces between maximal runs of white space
SplitSpaces(s, k, cur) ==
    IF k > Len(s) THEN <<cur>>
    ELSE IF CharAt(s, k) \in SpaceChars
         THEN IF k > 1 /\ CharAt(s, k - 1) \in SpaceChars
              THEN SplitSpaces(s, k + 1, cur)
              ELSE <<cur>> \o SplitSpaces(s, k + 1, "")
         ELSE SplitSpaces(s, k + 1, cur \o CharAt(s, k))

extractKeywords(input) ==
    LET cleaned == MapChars(input, 1, WordChars \cup SpaceChars)
    IN  SelectSeq(SplitSpaces(cleaned, 1, ""), LAMBDA w : Len(w) > 3)

analyze(input) ==
    LET intent == classifyIntent(input)
    IN  [intent |-> intent,
         urgency |-> classifyUrgency(input),
         confidence |-> calculateConfidence(intent, input),
         keywords |-> extractKeywords(input)]

(***************************************************************************)
(* Response library: the five templates                                    *)
(* props are literal data of each template and opaque to the composition;  *)
(* they are left out. Texts are in ASCII.                                  *)
(***************************************************************************)
Visible(id, type, priority) ==
    [id |-> id, type |-> type, priority |-> priority, visibility |-> "visible"]

Hidden(type, reason) == [type |-> type, reason |-> reason]

incidentResponse(confidence) ==
    [layout |-> "grid",
     confidence |-> confidence,
     explanation |-> "Incident detected. Displaying critical alerts, affected metrics, timeline of events, system logs, and an action checklist. Grid layout maximizes information density for rapid triage.",
     reasoning |->
        [intent |-> "incident",
         urgency |-> "high",
         uncertaintyAreas |-> <<"Root cause not yet confirmed", "Full blast radius unknown">>,
         hiddenComponents |-> <<
            Hidden("GeoMap", "No geographic correlation detected yet"),
            Hidden("InsightSummary", "Not enough data for hypotheses - incident is active")>>],
     components |-> <<
        Visible("banner-1", "StatusBanner", 1),
        Visible("alert-1", "AlertPanel", 2),
        Visible("metric-1", "MetricCard", 3),
        Visible("metric-2", "MetricCard", 3),
        Visible("metric-3", "MetricCard", 4),
        Visible("metric-4", "MetricCard", 4),
        Visible("timeline-1", "TimelineView", 5),
        Visible("logs-1", "LogViewer", 6),
        Visible("actions-1", "ActionChecklist", 7),
        Visible("recs-1", "RecommendationStrip", 8)>>]

overviewResponse(confidence) ==
    [layout |-> "grid",
     confidence |-> confidence,
     explanation |-> "Overview requested. Showing system health banner, key performance metrics, traffic trend, error distribution, and a summary of observations. Grid layout for at-a-glance comprehension.",
     reasoning |->
        [intent |-> "overview",
         urgency |-> "low",
         uncertaintyAreas |-> <<>>,
         hiddenComponents |-> <<
            Hidden("AlertPanel", "No active alerts - system is healthy"),
            Hidden("LogViewer", "Not relevant for high-level overview"),
            Hidden("ActionChecklist", "No active incidents requiring action"),
            Hidden("GeoMap", "Geographic view not requested")>>],
     components |-> <<
        Visible("banner-1", "StatusBanner", 1),
        Visible("metric-1", "MetricCard", 2),
        Visible("metric-2", "MetricCard", 2),
        Visible("metric-3", "MetricCard", 2),
        Visible("metric-4", "MetricCard", 2),
        Visible("chart-1", "ChartView", 3),
        Visible("chart-2", "ChartView", 4),
        Visible("insights-1", "InsightSummary", 5),
        Visible("recs-1", "RecommendationStrip", 6)>>]

\* variant: the confidence is embedded as it comes
investigationResponseUnclamped(confidence) ==
    [layout |-> "split",
     confidence |-> confidence,
     explanation |-> "Investigation mode activated. Low confidence - presenting hypotheses rather than conclusions. Split layout: left side shows anomaly analysis, right side shows evidence (logs, timeline, map). UI is intentionally exploratory to avoid premature conclusions.",
     reasoning |->
        [intent |-> "investigation",
         urgency |-> "medium",
         uncertaintyAreas |-> <<
            "Anomaly pattern not yet conclusive",
            "Correlation /= causation - multiple hypotheses active",
            "Geographic correlation needs more data points",
            "Temporal pattern may be coincidental">>,
         hiddenComponents |-> <<
            Hidden("ActionChecklist", "No confirmed incident yet - premature for action items"),
            Hidden("RecommendationStrip", "Confidence too low for directive recommendations"),
            Hidden("AlertPanel", "No triggered alerts - anomalies are sub-threshold")>>],
     components |-> <<
        Visible("banner-1", "StatusBanner", 1),
        Visible("insights-1", "InsightSummary", 2),
        Visible("chart-1", "ChartView", 3),
        Visible("timeline-1", "TimelineView", 4),
        Visible("logs-1", "LogViewer", 5),
        Visible("geo-1", "GeoMap", 6)>>]

investigationResponse(confidence) ==
    [layout |-> "split",
     confidence |-> Min(confidence, 54),
     explanation |-> "Investigation mode activated. Low confidence - presenting hypotheses rather than conclusions. Split layout: left side shows anomaly analysis, right side shows evidence (logs, timeline, map). UI is intentionally exploratory to avoid premature conclusions.",
     reasoning |->
        [intent |-> "investigation",
         urgency |-> "medium",
         uncertaintyAreas |-> <<
            "Anomaly pattern not yet conclusive",
            "Correlation /= causation - multiple hypotheses active",
            "Geographic correlation needs more data points",
            "Temporal pattern may be coincidental">>,
         hiddenComponents |-> <<
            Hidden("ActionChecklist", "No confirmed incident yet - premature for action items"),
            Hidden("RecommendationStrip", "Confidence too low for directive recommendations"),
            Hidden("AlertPanel", "No triggered alerts - anomalies are sub-threshold")>>],
     components |-> <<
        Visible("banner-1", "StatusBanner", 1),
        Visible("insights-1", "InsightSummary", 2),
        Visible("chart-1", "ChartView", 3),
        Visible("timeline-1", "TimelineView", 4),
        Visible("logs-1", "LogViewer", 5),
        Visible("geo-1", "GeoMap", 6)>>]

escalationResponse(confidence) ==
    [layout |-> "stack",
     confidence |-> confidence,
     explanation |-> "ESCALATION detected. Switching to directive stack layout that prioritizes actionable information. AlertPanel and ActionChecklist are top priority. Every component is ordered by urgency. Stack layout ensures nothing is missed during rapid response.",
     reasoning |->
        [intent |-> "escalation",
         urgency |-> "critical",
         uncertaintyAreas |-> <<
            "Full impact scope still being assessed",
            "Customer-facing impact duration unknown">>,
         hiddenComponents |-> <<
            Hidden("GeoMap", "Geographic data not actionable during escalation"),
            Hidden("LogViewer", "Deprioritized - action items are more critical right now"),
            Hidden("ChartView", "Trend data less important than immediate actions")>>],
     components |-> <<
        Visible("banner-1", "StatusBanner", 1),
        Visible("alert-1", "AlertPanel", 2),
        Visible("actions-1", "ActionChecklist", 3),
        Visible("metric-1", "MetricCard", 4),
        Visible("metric-2", "MetricCard", 4),
        Visible("metric-3", "MetricCard", 4),
        Visible("metric-4", "MetricCard", 4),
        Visible("recs-1", "RecommendationStrip", 5),
        Visible("timeline-1", "TimelineView", 6)>>]

explorationResponse(confidence) ==
    [layout |-> "grid",
     confidence |-> Min(confidence, 65),
     explanation |-> "Exploration mode. Broad overview with charts, metrics, and insights to help guide further inquiry. Grid layout provides multiple entry points for deeper investigation.",
     reasoning |->
        [intent |-> "exploration",
         urgency |-> "low",
         uncertaintyAreas |-> <<
            "User intent is general - showing broad surface area",
            "May need follow-up questions to narrow focus">>,
         hiddenComponents |-> <<
            Hidden("ActionChecklist", "No specific actions identified yet"),
            Hidden("AlertPanel", "No triggered alerts to display")>>],
     components |-> <<
        Visible("banner-1", "StatusBanner", 1),
        Visible("metric-1", "MetricCard", 2),
        Visible("metric-2", "MetricCard", 2),
        Visible("metric-3", "MetricCard", 2),
        Visible("metric-4", "MetricCard", 2),
        Visible("chart-1", "ChartView", 3),
        Visible("insights-1", "InsightSummary", 4),
        Visible("geo-1", "GeoMap", 5)>>]

\* variant: the urgency computed by the analyzer is surfaced in the document
getResponseForIntentWithUrgency(intent, urgency, confidence) ==
    LET doc == CASE intent = "incident" -> incidentResponse(confidence)
                 [] intent = "overview" -> overviewResponse(confidence)
                 [] intent = "investigation" -> investigationResponse(confidence)
                 [] intent = "escalation" -> escalationResponse(confidence)
                 [] OTHER -> explorationResponse(confidence)
    IN  [doc EXCEPT !.reasoning.urgency = urgency]

\* variant: the default branch returns the overview template
getResponseForIntentDefaultOverview(intent, urgency, confidence) ==
    CASE intent = "incident" -> incidentResponse(confidence)
      [] intent = "investigation" -> investigationResponse(confidence)
      [] intent = "escalation" -> escalationResponse(confidence)
      [] intent = "exploration" -> explorationResponse(confidence)
      [] OTHER -> overviewResponse(confidence)

\* the switch on intent; _urgency is not read
getResponseForIntent(intent, urgency, confidence) ==
    CASE intent = "incident" -> incidentResponse(confidence)
      [] intent = "overview" -> overviewResponse(confidence)
      [] intent = "investigation" -> investigationResponse(confidence)
      [] intent = "escalation" -> escalationResponse(confidence)
      [] OTHER -> explorationResponse(confidence)

(***************************************************************************)
(* Component registry and layout table                                     *)
(***************************************************************************)
\* variant: a registry without the GeoMap renderer
componentRegistryWithoutGeoMap ==
    {"MetricCard", "AlertPanel", "TimelineView", "LogViewer", "ChartView",
     "ActionChecklist", "InsightSummary", "RecommendationStrip", "StatusBanner"}

componentRegistry ==
    {"MetricCard", "AlertPanel", "TimelineView", "LogViewer", "ChartView",
     "ActionChecklist", "InsightSummary", "RecommendationStrip", "GeoMap", "StatusBanner"}

layoutMap == {"grid", "stack", "split", "overlay"}

\* componentRegistry and layoutMap are object literals: a key they do not own is
\* still found when Object.prototype has a member of that name
ObjectPrototypeKeys == {"constructor"}

\* obj[key] ?? fallback : "own" when obj owns the key, "inherited" when the
\* value is a member of Object.prototype, "absent" when the lookup is undefined
Lookup(ownKeys, key) ==
    IF key \in ownKeys THEN "own"
    ELSE IF key \in ObjectPrototypeKeys THEN "inherited" ELSE "absent"

resolveComponent(type) == Lookup(componentRegistry, type)

(***************************************************************************)
(* Layouts                                                                 *)
(***************************************************************************)
Cell(spec, width) ==
    [id |-> spec.id, type |-> spec.type, width |-> width,
     animationDelay |-> spec.priority * 60]


\* <Object {...props}/> returns the props object, which React refuses as a child
Throws(items) == \E k \in DOMAIN items : resolveComponent(items[k].type) = "inherited"

\* variant: a recommendation strip is sized like any other component
GridWidthBannerOnly(spec) ==
    IF spec.type = "StatusBanner" THEN "full"
    ELSE IF spec.type = "MetricCard" THEN "quarter" ELSE "half"

GridWidth(spec) ==
    IF spec.type = "StatusBanner" \/ spec.type = "RecommendationStrip" THEN "full"
    ELSE IF spec.type = "MetricCard" THEN "quarter" ELSE "half"

\* the width class a layout gives a cell: by type in the grid, else fixed
CellWidth(class, spec) == IF class = "byType" THEN GridWidth(spec) ELSE class

\* items.map(...) of a layout: null for a type that does not resolve
Cells(items, class) ==
    LET placed == SelectSeq(items, LAMBDA c : resolveComponent(c.type) # "absent")
    IN  [k \in DOMAIN placed |-> Cell(placed[k], CellWidth(class, placed[k]))]

GridLayout(components) ==
    [strategy |-> "grid",
     thrown |-> Throws(components),
     regions |-> <<[name |-> "grid", cells |-> Cells(components, "byType")]>>]

\* variant: the stack sizes its cells by type, as the grid does
StackLayoutByType(components) ==
    [strategy |-> "stack",
     thrown |-> Throws(components),
     regions |-> <<[name |-> "stack", cells |-> Cells(components, "byType")]>>]

StackLayout(components) ==
    [strategy |-> "stack",
     thrown |-> Throws(components),
     regions |-> <<[name |-> "stack", cells |-> Cells(components, "full")]>>]

\* variant: the list is cut at floor(n/2)
SplitLayoutFloor(components) ==
    LET mid == Len(components) \div 2
        left == SubSeq(components, 1, mid)
        right == SubSeq(components, mid + 1, Len(components))
    IN  [strategy |-> "split",
         thrown |-> Throws(components),
         regions |-> <<[name |-> "left", cells |-> Cells(left, "full")],
                       [name |-> "right", cells |-> Cells(right, "full")]>>]

SplitLayout(components) ==
    LET mid == (Len(components) + 1) \div 2
        left == SubSeq(components, 1, mid)
        right == SubSeq(components, mid + 1, Len(components))
    IN  [strategy |-> "split",
         thrown |-> Throws(components),
         regions |-> <<[name |-> "left", cells |-> Cells(left, "full")],
                       [name |-> "right", cells |-> Cells(right, "full")]>>]

OverlayLayout(components) ==
    LET overlays == SelectSeq(components, LAMBDA c : c.priority <= 2)
        base == SelectSeq(components, LAMBDA c : c.priority > 2)
    IN  [strategy |-> "overlay",
         thrown |-> Throws(components),
         regions |-> <<[name |-> "base", cells |-> Cells(base, "half")]>>
                     \o (IF Len(overlays) > 0
                         THEN <<[name |-> "overlay", cells |-> Cells(overlays, "full")]>>
                         ELSE <<>>)]

(***************************************************************************)
(* Composition engine                                                      *)
(***************************************************************************)
\* variant: only the entries marked hidden are dropped
VisibleComponentsNotHidden(components) ==
    SelectSeq(components, LAMBDA c : c.visibility # "hidden")

\* step 1: schema.components.filter((c) => c.visibility === 'visible')
VisibleComponents(components) ==
    SelectSeq(components, LAMBDA c : c.visibility = "visible")

RECURSIVE Reversed(_)
Reversed(items) ==
    IF items = <<>> THEN <<>> ELSE Append(Reversed(Tail(items)), Head(items))

\* variant: an unstable sort, entries of equal priority come out reversed
SortByPriorityUnstable(components) ==
    LET rev == Reversed(components)
        keyed == [k \in DOMAIN rev |-> [key |-> rev[k].priority, val |-> rev[k]]]
        bykey == StableSort(keyed)
    IN  [k \in DOMAIN bykey |-> bykey[k].val]

\* step 2: [...visibleComponents].sort((a, b) => a.priority - b.priority)
SortByPriority(components) ==
    LET keyed == [k \in DOMAIN components |->
                     [key |-> components[k].priority, val |-> components[k]]]
        bykey == StableSort(keyed)
    IN  [k \in DOMAIN bykey |-> bykey[k].val]

SentinelComposition(doc) ==
    LET visibleComponents == VisibleComponents(doc.components)
        sorted == SortByPriority(visibleComponents)
        found == Lookup(layoutMap, doc.layout)
        rendered == CASE found = "own" /\ doc.layout = "stack" -> StackLayout(sorted)
                      [] found = "own" /\ doc.layout = "split" -> SplitLayout(sorted)
                      [] found = "own" /\ doc.layout = "overlay" -> OverlayLayout(sorted)
                      [] found = "inherited" ->
                            \* <Object components={sorted}/> : not a renderable child
                            [strategy |-> "none", thrown |-> TRUE, regions |-> <<>>]
                      [] OTHER -> GridLayout(sorted)
        confidenceColor == IF doc.confidence >= 80 THEN "green"
                           ELSE IF doc.confidence >= 50 THEN "amber" ELSE "red"
    IN  [dataLayout |-> doc.layout,
         confidenceColor |-> confidenceColor,
         confidenceLabel |-> doc.confidence,
         sorted |-> sorted,
         strategy |-> rendered.strategy,
         thrown |-> rendered.thrown,
         regions |-> IF rendered.thrown THEN <<>> ELSE rendered.regions]

\* variant: the sort is applied to schema.components itself
ComponentsAfterRenderSortedInPlace(components) == SortByPriority(components)

\* schema.components once SentinelComposition has rendered: filter returns a
\* new array and sort acts on a spread copy of it, the source array is not
\* written
ComponentsAfterRender(components) == components

\* schema.components once ExplainabilityPanel has rendered: its sort acts on
\* the array its filter returned
ComponentsAfterExplain(components) == components

(***************************************************************************)
(* Inputs                                                                  *)
(***************************************************************************)
\* the quick-access prompts of the input shell
DEMO_PROMPTS ==
    <<"Users are reporting login failures",
      "Give me a high-level overview of today",
      "Something feels off, help me investigate",
      "This is escalating, what should I do now?">>

\* longer texts: four or more patterns of one intent match
LongPrompts ==
    {"outage: login failed with error 500",
     "login failed, site down now",
     "something seems off, investigate why this looks weird",
     "show me more info, drill deep",
     "what's happening? brief status summary",
     "URGENT: critical emergency, it is spreading"}

Vocabulary ==
    {"fail", "login", "down", "overview", "today", "off", "offline",
     "Something", "feels", "now", "help", "Urgent", "explore"}

RECURSIVE Phrases(_)
\* the texts of n words of Vocabulary separated by one space
Phrases(n) ==
    IF n = 0 THEN {""}
    ELSE IF n = 1 THEN Vocabulary
    ELSE {p \o " " \o w : p \in Phrases(n - 1), w \in Vocabulary}

Inputs ==
    UNION {Phrases(n) : n \in 0..MaxWords}
        \cup {DEMO_PROMPTS[k] : k \in DOMAIN DEMO_PROMPTS} \cup LongPrompts

\* arguments of a direct call of getResponseForIntent
IntentArgs == Intents \cup {"maintenance"}
ConfidenceArgs == {-10, 0, 45, 53, 54, 55, 60, 65, 66, 70, 78, 95, 100, 120}

\* documents handed to the composition by any producer
LayoutSample == layoutMap \cup {"radial", "constructor"}
TypeSample == {"StatusBanner", "MetricCard", "ChartView", "Sparkline", "constructor"}
Visibilities == {"visible", "hidden", "conditional"}
PrioritySample == {1, 2, 3}
ConfidenceSample == {49, 50, 65, 80}

\* what an entry is made of, its id apart
EntryShapes == [type : TypeSample, priority : PrioritySample, visibility : Visibilities]

\* the components list with these shapes; the k-th entry has the id <<"c", k>>
ComponentList(shapes) ==
    [k \in DOMAIN shapes |->
        [id |-> <<"c", k>>, type |-> shapes[k].type,
         priority |-> shapes[k].priority, visibility |-> shapes[k].visibility]]

SampleReasoning ==
    [intent |-> "overview", urgency |-> "low", uncertaintyAreas |-> <<>>,
     hiddenComponents |-> <<Hidden("GeoMap", "Geographic view not requested")>>]

Document(l, c, cs) ==
    [layout |-> l, confidence |-> c, explanation |-> "Sample composition.",
     reasoning |-> SampleReasoning, components |-> cs]

(***************************************************************************)
(* State                                                                   *)
(***************************************************************************)
VARIABLES
    input,        \* the text analyzeSituation was called with
    pc,           \* "pending", "classified", "resolved", "rendered", "rerendered"
    analysis,     \* the AnalysisResult, once computed
    schema,       \* the UISchema, once produced
    arrangement,  \* what SentinelComposition rendered from schema
    calls,        \* the calls of analyzeSituation made side by side, in call order
    isAnalyzing,  \* SentinelApp's isAnalyzing state
    lastPrompt    \* SentinelApp's lastPrompt state

vars == <<input, pc, analysis, schema, arrangement, calls, isAnalyzing, lastPrompt>>

None == "none"

\* analyzeSituation(input) has been called and its timer is pending
Init ==
    /\ input \in Inputs
    /\ pc = "pending"
    /\ analysis = None
    /\ schema = None
    /\ arrangement = None
    /\ calls = <<>>
    /\ isAnalyzing = FALSE
    /\ lastPrompt = ""

\* the timer fires: analyze, then getResponseForIntent on its result
AnalyzeSituation ==
    /\ pc = "pending"
    /\ analysis' = analyze(input)
    /\ schema' = getResponseForIntent(analysis'.intent, analysis'.urgency, analysis'.confidence)
    /\ pc' = "resolved"
    /\ UNCHANGED <<input, arrangement, calls, isAnalyzing, lastPrompt>>

\* a direct call getResponseForIntent(intent, urgency, confidence)
GetResponse ==
    /\ pc = "classified"
    /\ schema' = getResponseForIntent(analysis.intent, analysis.urgency, analysis.confidence)
    /\ pc' = "resolved"
    /\ UNCHANGED <<input, analysis, arrangement, calls, isAnalyzing, lastPrompt>>

\* <SentinelComposition schema={schema} /> is rendered
Render ==
    /\ pc = "resolved"
    /\ arrangement' = SentinelComposition(schema)
    /\ schema' = [schema EXCEPT !.components = ComponentsAfterRender(@)]
    /\ pc' = "rendered"
    /\ UNCHANGED <<input, analysis, calls, isAnalyzing, lastPrompt>>

\* the application renders again ("Why this UI?" is clicked, or Retry after a
\* failed render): the composition with the same schema and the
\* explainability panel beside it
Rerender ==
    /\ pc = "rendered"
    /\ arrangement' = SentinelComposition(schema)
    /\ schema' = [schema EXCEPT
                     !.components = ComponentsAfterExplain(ComponentsAfterRender(@))]
    /\ pc' = "rerendered"
    /\ UNCHANGED <<input, analysis, calls, isAnalyzing, lastPrompt>>

Next == AnalyzeSituation \/ Render \/ Rerender

Spec == Init /\ [][Next]_vars

\* getResponseForIntent called with any arguments
InitResponse ==
    /\ input = ""
    /\ pc = "classified"
    /\ analysis \in [intent : IntentArgs, urgency : Urgencies,
                     confidence : ConfidenceArgs, keywords : {<<>>}]
    /\ schema = None
    /\ arrangement = None
    /\ calls = <<>>
    /\ isAnalyzing = FALSE
    /\ lastPrompt = ""

NextResponse == GetResponse \/ Render \/ Rerender

SpecResponse == InitResponse /\ [][NextResponse]_vars

\* SentinelComposition given any document
InitCompose ==
    /\ input = ""
    /\ pc = "resolved"
    /\ analysis = None
    /\ arrangement = None
    /\ calls = <<>>
    /\ isAnalyzing = FALSE
    /\ lastPrompt = ""
    \* every layout with every components list of at most MaxComponents entries;
    \* the confidence, which no placement reads, varies on the lists of at most
    \* one entry
    /\ \/ \E n \in 0..MaxComponents, l \in LayoutSample, c \in ConfidenceSample :
             /\ n <= 1 \/ c = 65
             /\ \E shapes \in [1..n -> EntryShapes] :
                   schema = Document(l, c, ComponentList(shapes))
       \* and the five template documents, six to ten entries long, under
       \* every layout
       \/ \E intent \in Intents, l \in LayoutSample :
             schema = [getResponseForIntent(intent, "low", 65) EXCEPT !.layout = l]

NextCompose == Render \/ Rerender

SpecCompose == InitCompose /\ [][NextCompose]_vars

\* confidences no document may carry: below 0 and above 1
OutOfRangeSample == {-10, 120}

\* the list with every entry carrying the id of the first
DuplicateIds(components) ==
    [k \in DOMAIN components |-> [components[k] EXCEPT !.id = components[1].id]]

\* the document without its explanation field
WithoutExplanation(doc) == [f \in DOMAIN doc \ {"explanation"} |-> doc[f]]

\* SentinelComposition given a document that breaks the UISchema contract:
\* duplicate ids, a confidence outside [0, 1] or a required field missing
InitMalformed ==
    /\ input = ""
    /\ pc = "resolved"
    /\ analysis = None
    /\ arrangement = None
    /\ calls = <<>>
    /\ isAnalyzing = FALSE
    /\ lastPrompt = ""
    /\ \E n \in 0..MaxComponents, l \in LayoutSample :
          \E shapes \in [1..n -> EntryShapes] :
             \/ n >= 2 /\ schema = Document(l, 65, DuplicateIds(ComponentList(shapes)))
             \/ n <= 1 /\ \E c \in OutOfRangeSample :
                              schema = Document(l, c, ComponentList(shapes))
             \/ n <= 1 /\ schema = WithoutExplanation(Document(l, 65, ComponentList(shapes)))

NextMalformed == Render \/ Rerender

SpecMalformed == InitMalformed /\ [][NextMalformed]_vars

\* texts of the calls made side by side
CallTexts == {"fail", "overview today"}

\* the simulated latency 300 + Math.random() * 500, in milliseconds
DelaySample == {300, 799}

\* variant: the confidence wears off with the time the call has waited
analyzeSituationTimed(text, delay) ==
    LET result == analyze(text)
    IN  getResponseForIntent(result.intent, result.urgency,
                             result.confidence - (delay - 300) \div 100)

\* what analyzeSituation(text) resolves to once its timer of this delay has
\* fired: the delay is awaited and not read again
analyzeSituation(text, delay) ==
    LET result == analyze(text)
    IN  getResponseForIntent(result.intent, result.urgency, result.confidence)

\* no call has been made yet
InitConcurrent ==
    /\ input = ""
    /\ pc = "idle"
    /\ analysis = None
    /\ schema = None
    /\ arrangement = None
    /\ calls = <<>>
    /\ isAnalyzing = FALSE
    /\ lastPrompt = ""

\* analyzeSituation(text) is called: the delay is drawn and the timer set
StartCall ==
    /\ Len(calls) < MaxCalls
    /\ \E text \in CallTexts, delay \in DelaySample :
          calls' = Append(calls, [text |-> text, delay |-> delay,
                                  status |-> "pending", result |-> None])
    /\ UNCHANGED <<input, pc, analysis, schema, arrangement, isAnalyzing, lastPrompt>>

\* the timer of a pending call fires and its promise resolves; the calls
\* start at any time, so their timers fire in any order
TimerFires ==
    /\ \E k \in DOMAIN calls :
          /\ calls[k].status = "pending"
          /\ calls' = [calls EXCEPT
                          ![k].status = "resolved",
                          ![k].result = analyzeSituation(calls[k].text, calls[k].delay)]
    /\ UNCHANGED <<input, pc, analysis, schema, arrangement, isAnalyzing, lastPrompt>>

NextConcurrent == StartCall \/ TimerFires

SpecConcurrent == InitConcurrent /\ [][NextConcurrent]_vars

(***************************************************************************)
(* The application: SentinelApp and its input shell                        *)
(***************************************************************************)
RECURSIVE TrimStart(_)
TrimStart(s) == IF Len(s) > 0 /\ Head(s) = " " THEN TrimStart(Tail(s)) ELSE s

RECURSIVE TrimEnd(_)
TrimEnd(s) ==
    IF Len(s) > 0 /\ SubSeq(s, Len(s), Len(s)) = " "
    THEN TrimEnd(SubSeq(s, 1, Len(s) - 1)) ELSE s

\* value.trim()
Trim(s) == TrimEnd(TrimStart(s))

\* what the user has typed into the input bar
TypedValues == {"", "  ", " fail ", "overview today", "down now  ", "explore"}

\* useState<UISchema | null>(null): the null a schema state starts with, a
\* record for it to be comparable with a document
NullSchema == [null |-> TRUE]

\* SentinelApp is mounted: no schema, nothing in flight
InitApp ==
    /\ input = ""
    /\ pc = "idle"
    /\ analysis = None
    /\ schema = NullSchema
    /\ arrangement = None
    /\ calls = <<>>
    /\ isAnalyzing = FALSE
    /\ lastPrompt = ""

\* handleSituationSubmit(text) up to its await: the two state updates, then
\* analyzeSituation(text) is called and draws this delay; at most MaxCalls
\* calls are in flight
handleSituationSubmit(text, delay) ==
    /\ Len(calls) < MaxCalls
    /\ isAnalyzing' = TRUE
    /\ lastPrompt' = text
    /\ calls' = Append(calls, [text |-> text, delay |-> delay,
                              status |-> "pending", result |-> None])
    /\ pc' = "awaiting"
    /\ UNCHANGED <<input, analysis, schema, arrangement>>

\* variant: the form submits while an analysis is in flight
handleSubmitWhileLoading ==
    \E value \in TypedValues, delay \in DelaySample :
        /\ Trim(value) # ""
        /\ handleSituationSubmit(Trim(value), delay)

\* the form of the input shell is submitted; isLoading is isAnalyzing
handleSubmit ==
    \E value \in TypedValues, delay \in DelaySample :
        /\ Trim(value) # "" /\ ~isAnalyzing
        /\ handleSituationSubmit(Trim(value), delay)

\* variant: the prompt buttons stay enabled while an analysis is in flight
PromptButtonWhileLoading ==
    \E k \in DOMAIN DEMO_PROMPTS, delay \in DelaySample :
        handleSituationSubmit(DEMO_PROMPTS[k], delay)

\* a quick-access prompt button is clicked
PromptButton ==
    \E k \in DOMAIN DEMO_PROMPTS, delay \in DelaySample :
        /\ ~isAnalyzing
        /\ handleSituationSubmit(DEMO_PROMPTS[k], delay)

\* the list without its k-th element
Without(items, k) == SubSeq(items, 1, k - 1) \o SubSeq(items, k + 1, Len(items))

\* variant: a result is applied only if its prompt is still the last one
AnalysisResolvesUnlessStale ==
    \E k \in DOMAIN calls :
        /\ schema' = IF calls[k].text = lastPrompt
                     THEN analyzeSituation(calls[k].text, calls[k].delay) ELSE schema
        /\ isAnalyzing' = FALSE
        /\ calls' = Without(calls, k)
        /\ pc' = "applied"
        /\ UNCHANGED <<input, analysis, arrangement, lastPrompt>>

\* the timer of a call in flight fires, analyzeSituation resolves and
\* handleSituationSubmit resumes: setSchema(result), then the finally block
AnalysisResolves ==
    \E k \in DOMAIN calls :
        /\ schema' = analyzeSituation(calls[k].text, calls[k].delay)
        /\ isAnalyzing' = FALSE
        /\ calls' = Without(calls, k)
        /\ pc' = "applied"
        /\ UNCHANGED <<input, analysis, arrangement, lastPrompt>>

\* variant: isAnalyzing is reset after setSchema in the try block, there being
\* no finally block
AnalysisRejectsWithoutFinally ==
    \E k \in DOMAIN calls :
        /\ calls' = Without(calls, k)
        /\ pc' = "failed"
        /\ UNCHANGED <<input, analysis, schema, arrangement, isAnalyzing, lastPrompt>>

\* the awaited promise rejects and handleSituationSubmit resumes in its catch
\* block: console.error, then the finally block
AnalysisRejects ==
    \E k \in DOMAIN calls :
        /\ isAnalyzing' = FALSE
        /\ calls' = Without(calls, k)
        /\ pc' = "failed"
        /\ UNCHANGED <<input, analysis, schema, arrangement, lastPrompt>>

\* the state holds a schema, not null
HasSchema == schema # NullSchema

\* the header's status text
StatusLine ==
    IF isAnalyzing THEN "Analyzing..."
    ELSE IF HasSchema THEN "Ready" ELSE "Awaiting input"

\* what SentinelApp renders from its state
Screen ==
    [status |-> StatusLine,
     prompt |-> IF HasSchema /\ lastPrompt # "" THEN lastPrompt ELSE None,
     composition |-> schema,
     shellDisabled |-> isAnalyzing]

\* the application used through its input shell
NextApp == handleSubmit \/ PromptButton \/ AnalysisResolves

SpecApp == InitApp /\ [][NextApp]_vars

\* handleSituationSubmit is called by any caller, a call being in flight or not
CallHandler ==
    \E text \in CallTexts, delay \in DelaySample : handleSituationSubmit(text, delay)

\* handleSituationSubmit on its own, without the gate of the shell
NextHandler == CallHandler \/ AnalysisResolves

SpecHandler == InitApp /\ [][NextHandler]_vars

\* the same, the awaited analysis being able to fail; every timer set fires
NextAppFailing == handleSubmit \/ PromptButton \/ AnalysisResolves \/ AnalysisRejects

\* the timer of a call in flight fires and its promise settles: the call
\* leaves the calls in flight, by AnalysisResolves or by AnalysisRejects
Settles == \E k \in DOMAIN calls : calls' = Without(calls, k)

SpecAppFailing == InitApp /\ [][NextAppFailing]_vars /\ WF_calls(Settles)

(***************************************************************************)
(* Properties of the analyzer (specification Spec)                         *)
(***************************************************************************)
Returned == pc \in {"resolved", "rendered"}

\* C1: for every input text, the empty one included, analyze returns an
\* intent of the five, an urgency of the four and a confidence in [0, 0.95]
AnalyzeInRange ==
    Returned =>
        /\ analysis.intent \in Intents
        /\ analysis.urgency \in Urgencies
        /\ analysis.confidence >= 0
        /\ analysis.confidence <= 95

\* the empty text analysed, and a text whose bonus reaches its cap
AnalyzeInRangeWitness ==
    /\ Returned
    /\ input \in {"", "outage: login failed with error 500"}
    /\ analysis.confidence \in {60, 95}

\* C2: classifyIntent returns the intent with the highest count of matching
\* patterns of its own, and among several intents with that (non-zero) count
\* the one declared first
IntentIsFirstMaximum ==
    Returned =>
        LET scores == IntentScores(input)
        IN  \/ /\ \A i \in Intents : scores[i] = 0
               /\ analysis.intent = "exploration"
            \/ \E k \in DOMAIN IntentOrder :
                  /\ analysis.intent = IntentOrder[k]
                  /\ scores[IntentOrder[k]] > 0
                  /\ \A j \in DOMAIN IntentOrder :
                        /\ scores[IntentOrder[j]] <= scores[IntentOrder[k]]
                        /\ j < k => scores[IntentOrder[j]] < scores[IntentOrder[k]]

\* two intents share the highest non-zero score
IntentTieWitness ==
    /\ Returned
    /\ LET scores == IntentScores(input)
       IN  \E i, j \in Intents :
              /\ i # j
              /\ scores[i] > 0
              /\ scores[i] = scores[j]
              /\ \A m \in Intents : scores[m] <= scores[i]

UrgencyHit(level) == MatchCount(URGENCY_SIGNALS[level], input) > 0

\* C3: classifyUrgency returns the first level of critical, high, medium, low
\* that has a matching pattern, however many match at later levels, and low
\* when none has
UrgencyIsFirstMatch ==
    Returned =>
        \/ /\ \A l \in Urgencies : ~UrgencyHit(l)
           /\ analysis.urgency = "low"
        \/ \E k \in DOMAIN UrgencyOrder :
              /\ analysis.urgency = UrgencyOrder[k]
              /\ UrgencyHit(UrgencyOrder[k])
              /\ \A j \in 1..(k - 1) : ~UrgencyHit(UrgencyOrder[j])

\* a later level has more matching patterns than the level returned
UrgencyFirstMatchWitness ==
    /\ Returned
    /\ analysis.urgency = "critical"
    /\ MatchCount(URGENCY_SIGNALS["high"], input)
          > MatchCount(URGENCY_SIGNALS["critical"], input)

BaseConfidence(intent) ==
    IF intent = "investigation" THEN 45 ELSE IF intent = "exploration" THEN 60 ELSE 70

\* C4: the confidence is min(base + min(matchCount * 0.08, 0.25), 0.95) with
\* matchCount counted over the patterns of the winning intent only
ConfidenceFormula ==
    Returned =>
        analysis.confidence =
            Min(BaseConfidence(analysis.intent)
                  + Min(MatchCount(INTENT_PATTERNS[analysis.intent], input) * 8, 25), 95)

\* urgency patterns match and the bonus is below its cap
ConfidenceFormulaWitness ==
    /\ Returned
    /\ UrgencyHit(analysis.urgency)
    /\ MatchCount(INTENT_PATTERNS[analysis.intent], input) \in 1..3
    /\ analysis.confidence = BaseConfidence(analysis.intent)
                               + 8 * MatchCount(INTENT_PATTERNS[analysis.intent], input)

NothingMatches ==
    /\ \A i \in Intents : MatchCount(INTENT_PATTERNS[i], input) = 0
    /\ \A l \in Urgencies : ~UrgencyHit(l)

\* C5: a text that matches no pattern at all is analysed as exploration, low,
\* 0.60, and its document is the exploration template with confidence 0.60
NoMatchIsExploration ==
    (Returned /\ NothingMatches) =>
        /\ analysis.intent = "exploration"
        /\ analysis.urgency = "low"
        /\ analysis.confidence = 60
        /\ schema.confidence = 60
        /\ schema.layout = "grid"
        /\ schema.reasoning.intent = "exploration"
        /\ schema.reasoning.urgency = "low"
        /\ [k \in DOMAIN schema.components |-> schema.components[k].id]
              = <<"banner-1", "metric-1", "metric-2", "metric-3", "metric-4",
                  "chart-1", "insights-1", "geo-1">>

NoMatchWitness ==
    /\ Returned
    /\ input = ""
    /\ NothingMatches
    /\ schema.confidence = 60

\* C8: the four demo prompts classify as documented
DemoPromptsAsDocumented ==
    Returned =>
        /\ input = DEMO_PROMPTS[1] =>
              /\ analysis.intent = "incident"
              /\ analysis.urgency = "high"
              /\ analysis.confidence > 70
              /\ analysis.confidence <= 95
              /\ schema.layout = "grid"
        /\ input = DEMO_PROMPTS[2] =>
              /\ analysis.intent = "overview"
              /\ analysis.urgency = "low"
              /\ schema.layout = "grid"
        /\ input = DEMO_PROMPTS[3] =>
              /\ analysis.intent = "investigation"
              /\ analysis.urgency = "medium"
              /\ schema.layout = "split"
        /\ input = DEMO_PROMPTS[4] =>
              /\ analysis.intent = "escalation"
              /\ analysis.urgency = "critical"
              /\ schema.layout = "stack"
              /\ schema.confidence = analysis.confidence

DemoPromptsWitness ==
    /\ pc = "rendered"
    /\ input = DEMO_PROMPTS[4]
    /\ schema.reasoning.intent = "escalation"
    /\ arrangement.strategy = "stack"

(***************************************************************************)
(* Properties of the response library (specification SpecResponse)         *)
(***************************************************************************)
\* C6: getResponseForIntent embeds the incoming confidence unchanged for
\* incident, overview and escalation, min(c, 0.54) for investigation and
\* min(c, 0.65) for exploration; an investigation document never exceeds 0.54
ConfidenceClampPolicy ==
    Returned =>
        /\ analysis.intent \in {"incident", "overview", "escalation"} =>
              schema.confidence = analysis.confidence
        /\ analysis.intent = "investigation" =>
              schema.confidence = Min(analysis.confidence, 54)
        /\ analysis.intent = "exploration" =>
              schema.confidence = Min(analysis.confidence, 65)
        /\ schema.reasoning.intent = "investigation" => schema.confidence <= 54

\* an investigation whose incoming confidence is above the clamp
ConfidenceClampWitness ==
    /\ Returned
    /\ analysis.intent = "investigation"
    /\ analysis.confidence > 54
    /\ schema.confidence = 54

TemplateTable ==
    [incident |-> [layout |-> "grid", urgency |-> "high"],
     overview |-> [layout |-> "grid", urgency |-> "low"],
     investigation |-> [layout |-> "split", urgency |-> "medium"],
     escalation |-> [layout |-> "stack", urgency |-> "critical"],
     exploration |-> [layout |-> "grid", urgency |-> "low"]]

\* C7: layout, reasoning.intent and reasoning.urgency of the document are
\* fixed by the intent alone, and the urgency argument changes no field: the
\* call with any other urgency returns the same document
TemplateFixedByIntent ==
    (Returned /\ analysis.intent \in Intents) =>
        /\ schema.layout = TemplateTable[analysis.intent].layout
        /\ schema.reasoning.intent = analysis.intent
        /\ schema.reasoning.urgency = TemplateTable[analysis.intent].urgency
        /\ \A u \in Urgencies :
              getResponseForIntent(analysis.intent, u, analysis.confidence) = schema

\* the analyzer's urgency differs from the one the template carries
TemplateFixedWitness ==
    /\ Returned
    /\ analysis.intent = "escalation"
    /\ analysis.urgency = "low"
    /\ schema.reasoning.urgency = "critical"
    /\ schema.layout = "stack"

(***************************************************************************)
(* Properties of the composition engine (specification SpecCompose)        *)
(***************************************************************************)
RECURSIVE Concat(_)
Concat(seqs) == IF seqs = <<>> THEN <<>> ELSE Head(seqs) \o Concat(Tail(seqs))

\* the cells of an arrangement in document order of the rendered tree
AllCells(arr) == Concat([k \in DOMAIN arr.regions |-> arr.regions[k].cells])

\* the position in doc.components of the entry with this id
PositionOf(doc, id) == CHOOSE k \in DOMAIN doc.components : doc.components[k].id = id

\* C9: only entries whose visibility is 'visible' are placed; a hidden or
\* conditional entry is in no cell of any layout, the grid fallback included
OnlyVisiblePlaced ==
    pc = "rendered" =>
        \A k \in DOMAIN schema.components :
            schema.components[k].visibility # "visible" =>
                \A c \in DOMAIN AllCells(arrangement) :
                    AllCells(arrangement)[c].id # schema.components[k].id

\* under the grid fallback, an entry of a registered type that is not visible
\* comes first in the document and is left out while the other entry is placed
OnlyVisiblePlacedWitness ==
    /\ pc = "rendered"
    /\ schema.layout = "radial"
    /\ Len(schema.components) = 2
    /\ schema.components[1].visibility = "conditional"
    /\ schema.components[1].type \in componentRegistry
    /\ schema.components[1].priority = 1
    /\ Len(AllCells(arrangement)) = 1
    /\ AllCells(arrangement)[1].id = schema.components[2].id

\* C10: the list handed to the layout is the visible entries in ascending
\* priority, equal priorities in input order; and in every layout two placed
\* entries of equal priority keep their input order
StablePriorityOrder ==
    pc = "rendered" =>
        LET sorted == arrangement.sorted
            cells == AllCells(arrangement)
        IN  /\ {sorted[k] : k \in DOMAIN sorted}
                  = {schema.components[k] : k \in
                        {j \in DOMAIN schema.components :
                            schema.components[j].visibility = "visible"}}
            /\ Len(sorted) = Cardinality({j \in DOMAIN schema.components :
                                            schema.components[j].visibility = "visible"})
            /\ \A i, j \in DOMAIN sorted :
                  i < j =>
                     /\ sorted[i].priority <= sorted[j].priority
                     /\ sorted[i].priority = sorted[j].priority =>
                           PositionOf(schema, sorted[i].id) < PositionOf(schema, sorted[j].id)
            /\ \A i, j \in DOMAIN cells :
                  (i < j /\ cells[i].animationDelay = cells[j].animationDelay) =>
                     PositionOf(schema, cells[i].id) < PositionOf(schema, cells[j].id)

\* two entries of equal priority are placed
StablePriorityOrderWitness ==
    /\ pc = "rendered"
    /\ LET cells == AllCells(arrangement)
       IN  /\ Len(cells) >= 2
           /\ cells[1].animationDelay = cells[2].animationDelay

\* an entry the placement is meant to keep: visible, of a registered type
Placeable(entry) == entry.visibility = "visible" /\ entry.type \in componentRegistry

\* C11: round trip, in every layout: each entry that is visible and of a
\* registered type is in exactly one cell of the placement, and every cell
\* comes from such an entry
RoundTrip ==
    pc = "rendered" =>
        LET cells == AllCells(arrangement)
        IN  /\ \A k \in DOMAIN schema.components :
                  Placeable(schema.components[k]) =>
                     Cardinality({c \in DOMAIN cells :
                                     cells[c].id = schema.components[k].id}) = 1
            /\ \A c \in DOMAIN cells :
                  \E k \in DOMAIN schema.components :
                     /\ Placeable(schema.components[k])
                     /\ cells[c].id = schema.components[k].id
                     /\ cells[c].type = schema.components[k].type

\* the cells of the region of this name, none when the region is not rendered
Layer(arr, name) ==
    Concat([k \in DOMAIN arr.regions |->
               IF arr.regions[k].name = name THEN arr.regions[k].cells ELSE <<>>])

\* the cell list holds a cell of this entry
InLayer(layer, id) == \E c \in DOMAIN layer : layer[c].id = id

\* ascending priority, entries of equal priority in document order
KeepsSortedOrder(doc, layer) ==
    \A i, j \in DOMAIN layer :
        i < j =>
           /\ layer[i].animationDelay <= layer[j].animationDelay
           /\ layer[i].animationDelay = layer[j].animationDelay =>
                 PositionOf(doc, layer[i].id) < PositionOf(doc, layer[j].id)

\* C12: in the overlay layout every visible entry of priority <= 2 is in the
\* overlay layer and every visible entry of priority > 2 in the base layer,
\* none is in both, each layer keeps the priority-sorted order, base cells
\* are half-width and overlay cells full-width
OverlayPartition ==
    (pc = "rendered" /\ schema.layout = "overlay") =>
        LET overlay == Layer(arrangement, "overlay")
            base == Layer(arrangement, "base")
        IN  /\ \A k \in DOMAIN schema.components :
                  LET entry == schema.components[k]
                  IN  /\ (entry.visibility = "visible" /\ entry.priority <= 2) =>
                            InLayer(overlay, entry.id)
                      /\ (entry.visibility = "visible" /\ entry.priority > 2) =>
                            InLayer(base, entry.id)
                      /\ ~(InLayer(overlay, entry.id) /\ InLayer(base, entry.id))
            /\ KeepsSortedOrder(schema, overlay)
            /\ KeepsSortedOrder(schema, base)
            /\ \A c \in DOMAIN base : base[c].width = "half"
            /\ \A c \in DOMAIN overlay : overlay[c].width = "full"

\* what the same document composes to when its layout is 'grid'
UnderGrid(doc) == SentinelComposition([doc EXCEPT !.layout = "grid"])

\* C13: a document whose layout is not one of grid, stack, split, overlay is
\* composed with the grid strategy, gets exactly the placement its components
\* get under layout 'grid', and no error is raised
UnknownLayoutIsGrid ==
    (pc = "rendered" /\ schema.layout \notin {"grid", "stack", "split", "overlay"}) =>
        /\ arrangement.strategy = "grid"
        /\ arrangement.regions = UnderGrid(schema).regions
        /\ ~arrangement.thrown

\* C14: in each of the four layouts, an entry whose type is not in the
\* component registry is skipped without an error, and every other visible
\* entry of a registered type is still placed, in priority order
UnknownTypeSkipped ==
    (/\ pc = "rendered"
     /\ schema.layout \in layoutMap
     /\ \E k \in DOMAIN schema.components :
           schema.components[k].type \notin componentRegistry) =>
        LET cells == AllCells(arrangement)
        IN  /\ ~arrangement.thrown
            /\ \A k \in DOMAIN schema.components :
                  LET entry == schema.components[k]
                  IN  /\ entry.type \notin componentRegistry => ~InLayer(cells, entry.id)
                      /\ Placeable(entry) => InLayer(cells, entry.id)
            /\ \A r \in DOMAIN arrangement.regions :
                  KeepsSortedOrder(schema, arrangement.regions[r].cells)

Malformed(doc) ==
    \/ \E i, j \in DOMAIN doc.components :
          i # j /\ doc.components[i].id = doc.components[j].id
    \/ doc.confidence < 0 \/ doc.confidence > 100
    \/ {"layout", "confidence", "explanation", "reasoning", "components"} \ DOMAIN doc # {}

\* C16: a malformed document is rejected, the failure reaching the caller of
\* the composition: no arrangement is rendered for it
MalformedRejected ==
    (pc \in {"rendered", "rerendered"} /\ Malformed(schema)) =>
        /\ arrangement.thrown
        /\ arrangement.regions = <<>>

(***************************************************************************)
(* Properties of the produced documents                                    *)
(***************************************************************************)
\* C17: for every intent and every incoming confidence, the values below 0
\* and above 1 included, the document getResponseForIntent returns has a
\* confidence in [0, 1]
ResponseConfidenceClamped ==
    Returned => (0 <= schema.confidence /\ schema.confidence <= 100)

\* C18: every document analyzeSituation returns keeps the data-model
\* invariants: ids pairwise distinct, every type a key of the registry, every
\* visibility one of the three, layout one of the four, a non-empty
\* explanation and a confidence in [0, 1]
DocumentInvariants ==
    Returned =>
        /\ \A i, j \in DOMAIN schema.components :
              i # j => schema.components[i].id # schema.components[j].id
        /\ \A k \in DOMAIN schema.components :
              /\ schema.components[k].type \in componentRegistry
              /\ schema.components[k].visibility \in {"visible", "hidden", "conditional"}
        /\ schema.layout \in {"grid", "stack", "split", "overlay"}
        /\ Len(schema.explanation) > 0
        /\ 0 <= schema.confidence /\ schema.confidence <= 100

\* a text classified as an investigation has returned the split document,
\* a map among its entries
DocumentInvariantsWitness ==
    /\ Returned
    /\ input = "Something feels off, help me investigate"
    /\ schema.layout = "split"
    /\ Len(schema.components) >= 2
    /\ \E k \in DOMAIN schema.components : schema.components[k].type = "GeoMap"

\* C19: getResponseForIntent called with an intent outside the five known
\* values returns the exploration template (layout grid, reasoning.intent
\* exploration, confidence min(c, 0.65)) and does not fail
UnknownIntentIsExploration ==
    (Returned /\ analysis.intent \notin
         {"incident", "overview", "investigation", "escalation", "exploration"}) =>
        /\ schema = explorationResponse(analysis.confidence)
        /\ schema.layout = "grid"
        /\ schema.reasoning.intent = "exploration"
        /\ schema.confidence = Min(analysis.confidence, 65)

\* the intent 'maintenance' with a confidence above the exploration cap
UnknownIntentWitness ==
    /\ Returned
    /\ analysis.intent = "maintenance"
    /\ analysis.confidence = 78
    /\ schema.confidence = 65
    /\ schema.reasoning.intent = "exploration"

FailureReported ==
    [][pc' = "failed" =>
          /\ schema' = schema
          /\ Screen'.status \notin {"Ready", "Awaiting input"}]_vars

\* the least m with 2 * m >= n
CeilHalf(n) == CHOOSE m \in 0..n : 2 * m >= n /\ 2 * (m - 1) < n

\* the position in the sorted visible list of the entry with this id
PositionInSorted(arr, id) == CHOOSE k \in DOMAIN arr.sorted : arr.sorted[k].id = id

\* the cells are in the order of the sorted visible list
InSortedOrder(arr, cells) ==
    \A i, j \in DOMAIN cells :
        i < j => PositionInSorted(arr, cells[i].id) < PositionInSorted(arr, cells[j].id)

\* C22: in the split layout the sorted visible list of length n is cut at
\* ceil(n/2): the cells of the left column come from the first ceil(n/2)
\* entries and those of the right column from the rest, each column in the
\* sorted order, every cell full-width whatever its type; when the render
\* completes, every entry of a registered type is in its column
SplitAtMidpoint ==
    (pc = "rendered" /\ schema.layout = "split") =>
        LET mid == CeilHalf(Len(arrangement.sorted))
            left == Layer(arrangement, "left")
            right == Layer(arrangement, "right")
        IN  /\ \A c \in DOMAIN left : PositionInSorted(arrangement, left[c].id) <= mid
            /\ \A c \in DOMAIN right : PositionInSorted(arrangement, right[c].id) > mid
            /\ InSortedOrder(arrangement, left)
            /\ InSortedOrder(arrangement, right)
            /\ \A c \in DOMAIN left : left[c].width = "full"
            /\ \A c \in DOMAIN right : right[c].width = "full"
            /\ ~arrangement.thrown =>
                  \A k \in DOMAIN arrangement.sorted :
                      arrangement.sorted[k].type \in componentRegistry =>
                          IF k <= mid THEN InLayer(left, arrangement.sorted[k].id)
                          ELSE InLayer(right, arrangement.sorted[k].id)

\* a list of odd length is split, a metric card among its cells: the left
\* column has one cell more than the right
SplitAtMidpointWitness ==
    /\ pc = "rendered"
    /\ schema.layout = "split"
    /\ Len(arrangement.sorted) >= 3
    /\ Len(arrangement.sorted) % 2 = 1
    /\ Len(Layer(arrangement, "left")) = Len(Layer(arrangement, "right")) + 1
    /\ \E c \in DOMAIN Layer(arrangement, "left") :
          Layer(arrangement, "left")[c].type = "MetricCard"

\* each cell is of another entry
OneCellEach(cells) ==
    \A i, j \in DOMAIN cells : i # j => cells[i].id # cells[j].id

\* when the render completes, every sorted entry of a registered type has a cell
AllPlaced(arr, cells) ==
    ~arr.thrown =>
        \A k \in DOMAIN arr.sorted :
            arr.sorted[k].type \in componentRegistry => InLayer(cells, arr.sorted[k].id)

\* C23: in the grid layout, chosen or fallen back to, every placed entry is
\* one cell, the cells are in the priority-sorted order, and a cell is
\* full-width for StatusBanner and RecommendationStrip, quarter-width for
\* MetricCard, half-width otherwise
GridPlacement ==
    (pc = "rendered" /\ arrangement.strategy = "grid") =>
        LET cells == Layer(arrangement, "grid")
        IN  /\ cells = AllCells(arrangement)
            /\ OneCellEach(cells)
            /\ InSortedOrder(arrangement, cells)
            /\ AllPlaced(arrangement, cells)
            /\ \A c \in DOMAIN cells :
                  cells[c].width =
                     CASE cells[c].type \in {"StatusBanner", "RecommendationStrip"} -> "full"
                       [] cells[c].type = "MetricCard" -> "quarter"
                       [] OTHER -> "half"

\* a grid holding cells of the three width classes, a recommendation strip
\* among the full-width ones
GridPlacementWitness ==
    /\ pc = "rendered"
    /\ schema.layout = "grid"
    /\ LET cells == Layer(arrangement, "grid")
       IN  /\ \E c \in DOMAIN cells :
                 cells[c].type = "RecommendationStrip" /\ cells[c].width = "full"
           /\ \E c \in DOMAIN cells : cells[c].width = "quarter"
           /\ \E c \in DOMAIN cells : cells[c].width = "half"

\* C24: in the stack layout every placed entry is a single full-width cell,
\* the cells are in the priority-sorted order, and the animation-delay hint
\* of a cell is the priority of its entry times 60
StackPlacement ==
    (pc = "rendered" /\ schema.layout = "stack") =>
        LET cells == Layer(arrangement, "stack")
        IN  /\ cells = AllCells(arrangement)
            /\ OneCellEach(cells)
            /\ InSortedOrder(arrangement, cells)
            /\ AllPlaced(arrangement, cells)
            /\ \A c \in DOMAIN cells :
                  /\ cells[c].width = "full"
                  /\ cells[c].animationDelay =
                        schema.components[PositionOf(schema, cells[c].id)].priority * 60

\* a stack of several cells, a metric card of priority 3 among them with a
\* hint of 180
StackPlacementWitness ==
    /\ pc = "rendered"
    /\ schema.layout = "stack"
    /\ LET cells == Layer(arrangement, "stack")
       IN  /\ Len(cells) >= 2
           /\ \E c \in DOMAIN cells :
                 /\ cells[c].type = "MetricCard"
                 /\ cells[c].animationDelay = 180
                 /\ schema.components[PositionOf(schema, cells[c].id)].priority = 3

\* C25: the input shell submits only when no analysis is in flight and the
\* trimmed text is non-empty; so, with submissions made through the shell, at
\* most one analyzeSituation call is pending at any time
ShellGatesSubmission ==
    /\ Len(calls) <= 1
    /\ isAnalyzing <=> Len(calls) = 1
    /\ \A k \in DOMAIN calls :
          /\ calls[k].text # ""
          /\ calls[k].text = Trim(calls[k].text)
          /\ calls[k].text = lastPrompt

\* a text typed with spaces around it is in flight, submitted once an earlier
\* analysis had been applied
ShellGatesSubmissionWitness ==
    /\ pc = "awaiting"
    /\ HasSchema
    /\ isAnalyzing
    /\ Len(calls) = 1
    /\ calls[1].text = "fail"

\* C26: with submissions gated by the shell, whenever isAnalyzing is false
\* and a schema is displayed, it is the document synthesized for lastPrompt,
\* the prompt shown next to it
DisplayedMatchesPrompt ==
    (~isAnalyzing /\ HasSchema) =>
        /\ Screen.prompt = lastPrompt
        /\ \A delay \in DelaySample : schema = analyzeSituation(lastPrompt, delay)

\* the investigation prompt has been analyzed after another prompt and its
\* split document is displayed next to it
DisplayedMatchesPromptWitness ==
    /\ pc = "applied"
    /\ ~isAnalyzing
    /\ lastPrompt = DEMO_PROMPTS[3]
    /\ Screen.prompt = DEMO_PROMPTS[3]
    /\ Screen.status = "Ready"
    /\ schema.layout = "split"
    /\ schema.reasoning.intent = "investigation"

\* C27: handleSituationSubmit has no staleness guard: whichever call in flight
\* completes, its document becomes the displayed schema, lastPrompt being
\* left as it is; so the schema of an earlier prompt can replace that of a
\* later one and stay displayed next to it
AppliedInCompletionOrder ==
    [][pc' = "applied" =>
          \E k \in DOMAIN calls :
              /\ calls' = Without(calls, k)
              /\ schema' = analyzeSituation(calls[k].text, calls[k].delay)
              /\ lastPrompt' = lastPrompt]_vars

\* nothing is in flight any more, the last prompt submitted is the overview
\* one and the schema displayed is the incident document of the prompt
\* submitted before it
StaleSchemaWitness ==
    /\ pc = "applied"
    /\ calls = <<>>
    /\ ~isAnalyzing
    /\ lastPrompt = "overview today"
    /\ schema = analyzeSituation("fail", 300)
    /\ schema # analyzeSituation(lastPrompt, 300)

\* C28: every handleSituationSubmit call sets isAnalyzing back to false in
\* the end, its analysis resolving or rejecting, provided the delay timer
\* fires: the shell leaves the 'Analyzing...' state and submits again
AnalyzingEnds ==
    /\ isAnalyzing ~> (~isAnalyzing /\ ~Screen.shellDisabled /\ calls = <<>>)
    /\ (Screen.status = "Analyzing...") ~> (Screen.status # "Analyzing...")

\* an analysis has rejected and the shell is enabled again
AnalyzingEndsWitness ==
    /\ pc = "failed"
    /\ ~isAnalyzing
    /\ calls = <<>>
    /\ ~Screen.shellDisabled
    /\ Screen.status # "Analyzing..."
    /\ lastPrompt # ""

\* the confidence values C29 lists for the intent of a returned document
ConfidenceBand(intent) ==
    CASE intent = "investigation" -> {53, 54}
      [] intent = "exploration" -> {60, 65}
      [] OTHER -> {78, 86, 94, 95}

SplitBalanced ==
    (pc = "rendered" /\ schema.layout = "split") =>
        Len(Layer(arrangement, "left")) - Len(Layer(arrangement, "right")) \in {0, 1}

====
